---- MODULE Spec2Model ----
(***************************************************************************)
(* Model of src/main.js: a one-shot WebGPU start-up script that uploads a  *)
(* unit square, a grid-size uniform and a cell-state array, compiles one   *)
(* WGSL shader module, builds a pipeline and a bind group, records one     *)
(* render pass and submits it.                                             *)
(*                                                                         *)
(* Two specifications are given.                                           *)
(*   Spec      the script, one action per statement (or loop iteration),   *)
(*             with the environment's answers (navigator.gpu present or    *)
(*             not, adapter or null) chosen nondeterministically.          *)
(*   DrawSpec  the vertex stage of the shader, applied instance by         *)
(*             instance to a grid whose size and cell states are drawn     *)
(*             from bounded sets (every cell occurs active and inactive).  *)
(*                                                                         *)
(* Shader arithmetic is carried out over exact rationals <<num, den>>      *)
(* (den > 0, lowest terms); the u32 -> f32 conversion of the instance      *)
(* index keeps its 24-bit significand.                                     *)
(***************************************************************************)
EXTENDS Integers, Sequences, FiniteSets, TLC

\* Largest grid size the vertex stage is exercised on in DrawSpec.
MaxGrid == 5

\* Largest spacing of active cells in the cell-state patterns of DrawSpec.
MaxStep == 3

\* const GRID_SIZE = 32
GRID_SIZE == 32

(***************************************************************************)
(* Rational arithmetic                                                     *)
(***************************************************************************)
Abs(n) == IF n < 0 THEN -n ELSE n

RECURSIVE GCD(_, _)
GCD(a, b) == IF b = 0 THEN a ELSE GCD(b, a % b)

Norm(n, d) == LET g == GCD(Abs(n), d) IN <<n \div g, d \div g>>

Rat(n) == <<n, 1>>

RAdd(a, b) == Norm(a[1] * b[2] + b[1] * a[2], a[2] * b[2])
RSub(a, b) == Norm(a[1] * b[2] - b[1] * a[2], a[2] * b[2])
RMul(a, b) == Norm(a[1] * b[1], a[2] * b[2])
RDiv(a, b) == IF b[1] > 0 THEN Norm(a[1] * b[2], a[2] * b[1])
                          ELSE Norm(-(a[1] * b[2]), -(a[2] * b[1]))
RLe(a, b) == a[1] * b[2] <= b[1] * a[2]
RLt(a, b) == a[1] * b[2] < b[1] * a[2]
RFloor(a) == Rat(a[1] \div a[2])
RTrunc(a) == IF a[1] >= 0 THEN Rat(a[1] \div a[2]) ELSE Rat(-((-a[1]) \div a[2]))
\* WGSL: x % y = x - y * trunc(x / y)
RMod(a, b) == RSub(a, RMul(b, RTrunc(RDiv(a, b))))

\* vec2f, componentwise
VMulS(v, s) == <<RMul(v[1], s), RMul(v[2], s)>>
VAddS(v, s) == <<RAdd(v[1], s), RAdd(v[2], s)>>
VSubS(v, s) == <<RSub(v[1], s), RSub(v[2], s)>>
VAddV(v, w) == <<RAdd(v[1], w[1]), RAdd(v[2], w[2])>>
VDivV(v, w) == <<RDiv(v[1], w[1]), RDiv(v[2], w[2])>>

(***************************************************************************)
(* u32 -> f32: round to nearest, ties to even, 24-bit significand          *)
(***************************************************************************)
RECURSIVE F32Quantum(_, _)
F32Quantum(n, q) == IF n < 16777216 * q THEN q ELSE F32Quantum(n, 2 * q)

F32FromU32(n) ==
    LET q  == F32Quantum(n, 1)
        lo == (n \div q) * q
        r  == n - lo
    IN  IF 2 * r < q THEN Rat(lo)
        ELSE IF 2 * r > q THEN Rat(lo + q)
        ELSE IF (lo \div q) % 2 = 0 THEN Rat(lo) ELSE Rat(lo + q)

(***************************************************************************)
(* Host data                                                               *)
(***************************************************************************)
\* a wider square, [-1.2, 1.2]: reaches into the neighbouring cells
verticesWide ==
    << <<Norm(-12, 10), Norm(-12, 10)>>, <<Norm(12, 10), Norm(-12, 10)>>,
       <<Norm(12, 10), Norm(12, 10)>>,
       <<Norm(-12, 10), Norm(-12, 10)>>, <<Norm(12, 10), Norm(12, 10)>>,
       <<Norm(-12, 10), Norm(12, 10)>> >>

\* const vertices = new Float32Array([...]), as six (x, y) pairs
vertices ==
    << <<Norm(-8, 10), Norm(-8, 10)>>, <<Norm(8, 10), Norm(-8, 10)>>,
       <<Norm(8, 10), Norm(8, 10)>>,
       <<Norm(-8, 10), Norm(-8, 10)>>, <<Norm(8, 10), Norm(8, 10)>>,
       <<Norm(-8, 10), Norm(8, 10)>> >>

\* TypedArray.byteLength of a Float32Array / Uint32Array with n elements
ByteLength(n) == 4 * n

\* number of float32 in `vertices` (6 vertices x 2)
VerticesLength == 2 * Len(vertices)

\* new Float32Array([GRID_SIZE, GRID_SIZE])
uniformArray == <<GRID_SIZE, GRID_SIZE>>

\* new Uint32Array(GRID_SIZE * GRID_SIZE): zero-filled, indexed from 0
NewCellStateArrayRow == [i \in 0 .. (GRID_SIZE - 1) |-> 0]
NewCellStateArray == [i \in 0 .. (GRID_SIZE * GRID_SIZE - 1) |-> 0]

(***************************************************************************)
(* The shader module                                                       *)
(***************************************************************************)
\* @group(0) @binding(k) declarations of the shader source
ShaderBindings == {0, 1}

\* column-major unravel
CellOfSwapped(i, grid) == <<RFloor(RDiv(i, grid[1])), RMod(i, grid[1])>>
\* let cell = vec2f(i % grid.x, floor(i / grid.x));
CellOf(i, grid) == <<RMod(i, grid[1]), RFloor(RDiv(i, grid[1]))>>

\* offset of one cell width instead of two half-widths
CellOffsetHalf(cell, grid) == VDivV(cell, grid)
\* let cellOffset = cell / grid * 2;
CellOffset(cell, grid) == VMulS(VDivV(cell, grid), Rat(2))

\* the transform without the state factor
GridPosNoState(pos, state, grid, cellOffset) ==
    VAddV(VSubS(VDivV(VAddS(pos, Rat(1)), grid), Rat(1)), cellOffset)
\* let gridPos = (pos * state + 1) / grid - 1 + cellOffset;
GridPos(pos, state, grid, cellOffset) ==
    VAddV(VSubS(VDivV(VAddS(VMulS(pos, state), Rat(1)), grid), Rat(1)), cellOffset)

\* fn vertexMain(pos, instance) -> VertexOutput, reading `grid` and `cellState`
vertexMain(pos, instance, grid, cellState) ==
    LET i          == F32FromU32(instance)
        cell       == CellOf(i, grid)
        state      == F32FromU32(cellState[instance])
        cellOffset == CellOffset(cell, grid)
        gridPos    == GridPos(pos, state, grid, cellOffset)
    IN  [pos |-> gridPos, cell |-> cell]

\* fn fragmentMain(input) -> vec4f
fragmentMain(cell, grid) ==
    LET c == VDivV(cell, grid)
    IN  <<c[1], c[2], RSub(Rat(1), c[1]), Rat(1)>>

\* twice the signed area of triangle (p, q, r)
TriArea2(p, q, r) ==
    RSub(RMul(RSub(q[1], p[1]), RSub(r[2], p[2])),
         RMul(RSub(r[1], p[1]), RSub(q[2], p[2])))

\* the six vertex-stage outputs of one instance (two triangles)
InstanceOutputs(verts, instance, grid, cellState) ==
    [k \in 1 .. Len(verts) |-> vertexMain(verts[k], instance, grid, cellState)]

\* an instance covers pixels iff one of its two triangles has non-zero area
HasArea(outs) ==
    \/ TriArea2(outs[1].pos, outs[2].pos, outs[3].pos) # Rat(0)
    \/ TriArea2(outs[4].pos, outs[5].pos, outs[6].pos) # Rat(0)

(***************************************************************************)
(* State                                                                   *)
(***************************************************************************)
VARIABLES
    pc,               \* statement of main.js about to run
    navigatorGpu,     \* navigator.gpu is present
    adapter,          \* "unrequested", "null" or "adapter"
    adapterRequests,  \* calls of navigator.gpu.requestAdapter()
    error,            \* message of the Error thrown, or "none"
    device,           \* adapter.requestDevice() has resolved
    contextConfigured,
    vertexBuffer, uniformBuffer, cellStateStorage,
    cellStateArray,   \* host Uint32Array, <<>> before it is allocated
    loopI,            \* i of the fill loop
    cellShaderModule, cellPipeline,
    bindGroup,        \* [created, entries, valid]
    pass,             \* render pass encoder state
    commandBuffer,    \* [finished, valid]
    submitted,        \* command buffers handed to device.queue.submit
    frame,            \* what the queue executed: [drawn, visible]
    log,              \* setup stages in the order they completed
    dGrid, dNext, dCellState, dOut   \* DrawSpec: one draw call's vertex stage

progVars == <<pc, navigatorGpu, adapter, adapterRequests, error, device,
              contextConfigured, vertexBuffer, uniformBuffer, cellStateStorage,
              cellStateArray, loopI, cellShaderModule, cellPipeline, bindGroup,
              pass, commandBuffer, submitted, frame, log>>
drawVars == <<dGrid, dNext, dCellState, dOut>>
vars == <<progVars, drawVars>>

NoBuffer == [created |-> FALSE, size |-> 0, writes |-> 0, data |-> <<>>]
NoBindGroup == [created |-> FALSE, entries |-> <<>>, valid |-> FALSE]
NoPass == [begun |-> FALSE, valid |-> TRUE, pipeline |-> FALSE,
           vertexBuffer |-> FALSE, bindGroup |-> FALSE,
           draw |-> <<>>, ended |-> FALSE]
NoFrame == [drawn |-> FALSE, visible |-> {}]

ArrayLength(a) == Cardinality(DOMAIN a)

ProgInit ==
    /\ pc = "checkGpu"
    /\ navigatorGpu \in BOOLEAN
    /\ adapter = "unrequested"
    /\ adapterRequests = 0
    /\ error = "none"
    /\ device = FALSE
    /\ contextConfigured = FALSE
    /\ vertexBuffer = NoBuffer
    /\ uniformBuffer = NoBuffer
    /\ cellStateStorage = NoBuffer
    /\ cellStateArray = <<>>
    /\ loopI = 0
    /\ cellShaderModule = FALSE
    /\ cellPipeline = FALSE
    /\ bindGroup = NoBindGroup
    /\ pass = NoPass
    /\ commandBuffer = [finished |-> FALSE, valid |-> FALSE]
    /\ submitted = 0
    /\ frame = NoFrame
    /\ log = <<>>

DrawIdle ==
    /\ dGrid = GRID_SIZE
    /\ dNext = 0
    /\ dCellState = <<>>
    /\ dOut = <<>>

Init == ProgInit /\ DrawIdle

(***************************************************************************)
(* main.js, statement by statement                                         *)
(***************************************************************************)
\* if (!navigator.gpu) throw new Error(...)
CheckGpu ==
    /\ pc = "checkGpu"
    /\ IF navigatorGpu
       THEN pc' = "requestAdapter" /\ error' = error
       ELSE pc' = "aborted" /\ error' = "WebGPU not supported on this browser."
    /\ UNCHANGED <<navigatorGpu, adapter, adapterRequests, device,
                   contextConfigured, vertexBuffer, uniformBuffer,
                   cellStateStorage, cellStateArray, loopI, cellShaderModule,
                   cellPipeline, bindGroup, pass, commandBuffer, submitted,
                   frame, log, drawVars>>

\* const adapter = await navigator.gpu.requestAdapter();
RequestAdapter ==
    /\ pc = "requestAdapter"
    /\ \E a \in {"null", "adapter"} : adapter' = a
    /\ adapterRequests' = adapterRequests + 1
    /\ pc' = "checkAdapter"
    /\ UNCHANGED <<navigatorGpu, error, device,
                   contextConfigured, vertexBuffer, uniformBuffer,
                   cellStateStorage, cellStateArray, loopI, cellShaderModule,
                   cellPipeline, bindGroup, pass, commandBuffer, submitted,
                   frame, log, drawVars>>

\* the null check left out
CheckAdapterNoThrow ==
    /\ pc = "checkAdapter"
    /\ pc' = "requestDevice"
    /\ UNCHANGED <<navigatorGpu, adapter, adapterRequests, error, device,
                   contextConfigured, vertexBuffer, uniformBuffer,
                   cellStateStorage, cellStateArray, loopI, cellShaderModule,
                   cellPipeline, bindGroup, pass, commandBuffer, submitted,
                   frame, log, drawVars>>
\* if (!adapter) throw new Error(...)
CheckAdapter ==
    /\ pc = "checkAdapter"
    /\ IF adapter = "adapter"
       THEN pc' = "requestDevice" /\ error' = error
       ELSE pc' = "aborted" /\ error' = "No appropriate GPUAdapter found."
    /\ UNCHANGED <<navigatorGpu, adapter, adapterRequests, device,
                   contextConfigured, vertexBuffer, uniformBuffer,
                   cellStateStorage, cellStateArray, loopI, cellShaderModule,
                   cellPipeline, bindGroup, pass, commandBuffer, submitted,
                   frame, log, drawVars>>

\* const device = await adapter.requestDevice();
RequestDevice ==
    /\ pc = "requestDevice"
    /\ device' = TRUE
    /\ pc' = "configure"
    /\ UNCHANGED <<navigatorGpu, adapter, adapterRequests, error,
                   contextConfigured, vertexBuffer, uniformBuffer,
                   cellStateStorage, cellStateArray, loopI, cellShaderModule,
                   cellPipeline, bindGroup, pass, commandBuffer, submitted,
                   frame, log, drawVars>>

\* canvas.getContext("webgpu"); context.configure({device, format})
Configure ==
    /\ pc = "configure"
    /\ contextConfigured' = TRUE
    /\ log' = Append(log, "SurfaceAcquisition")
    /\ pc' = "createVertexBuffer"
    /\ UNCHANGED <<navigatorGpu, adapter, adapterRequests, error, device,
                   vertexBuffer, uniformBuffer,
                   cellStateStorage, cellStateArray, loopI, cellShaderModule,
                   cellPipeline, bindGroup, pass, commandBuffer, submitted,
                   frame, drawVars>>

\* const vertices = ...; const vertexBuffer = device.createBuffer({size: vertices.byteLength})
CreateVertexBuffer ==
    /\ pc = "createVertexBuffer"
    /\ vertexBuffer' = [NoBuffer EXCEPT !.created = TRUE,
                                        !.size = ByteLength(VerticesLength)]
    /\ log' = Append(log, "GeometryDefinition")
    /\ pc' = "writeVertexBuffer"
    /\ UNCHANGED <<navigatorGpu, adapter, adapterRequests, error, device,
                   contextConfigured, uniformBuffer,
                   cellStateStorage, cellStateArray, loopI, cellShaderModule,
                   cellPipeline, bindGroup, pass, commandBuffer, submitted,
                   frame, drawVars>>

\* device.queue.writeBuffer(vertexBuffer, 0, vertices);
WriteVertexBuffer ==
    /\ pc = "writeVertexBuffer"
    /\ vertexBuffer' = [vertexBuffer EXCEPT !.writes = @ + 1, !.data = vertices]
    /\ pc' = "createShaderModule"
    /\ UNCHANGED <<navigatorGpu, adapter, adapterRequests, error, device,
                   contextConfigured, uniformBuffer,
                   cellStateStorage, cellStateArray, loopI, cellShaderModule,
                   cellPipeline, bindGroup, pass, commandBuffer, submitted,
                   frame, log, drawVars>>

\* const cellShaderModule = device.createShaderModule({code})
CreateShaderModule ==
    /\ pc = "createShaderModule"
    /\ cellShaderModule' = TRUE
    /\ log' = Append(log, "ShaderProgram")
    /\ pc' = "createPipeline"
    /\ UNCHANGED <<navigatorGpu, adapter, adapterRequests, error, device,
                   contextConfigured, vertexBuffer, uniformBuffer,
                   cellStateStorage, cellStateArray, loopI,
                   cellPipeline, bindGroup, pass, commandBuffer, submitted,
                   frame, drawVars>>

\* const cellPipeline = device.createRenderPipeline({layout: "auto", ...})
CreatePipeline ==
    /\ pc = "createPipeline"
    /\ cellPipeline' = TRUE
    /\ log' = Append(log, "PipelineAssembly")
    /\ pc' = "createUniformBuffer"
    /\ UNCHANGED <<navigatorGpu, adapter, adapterRequests, error, device,
                   contextConfigured, vertexBuffer, uniformBuffer,
                   cellStateStorage, cellStateArray, loopI, cellShaderModule,
                   bindGroup, pass, commandBuffer, submitted,
                   frame, drawVars>>

\* const uniformBuffer = device.createBuffer({size: uniformArray.byteLength})
CreateUniformBuffer ==
    /\ pc = "createUniformBuffer"
    /\ uniformBuffer' = [NoBuffer EXCEPT !.created = TRUE,
                                         !.size = ByteLength(Len(uniformArray))]
    /\ pc' = "writeUniformBuffer"
    /\ UNCHANGED <<navigatorGpu, adapter, adapterRequests, error, device,
                   contextConfigured, vertexBuffer,
                   cellStateStorage, cellStateArray, loopI, cellShaderModule,
                   cellPipeline, bindGroup, pass, commandBuffer, submitted,
                   frame, log, drawVars>>

\* device.queue.writeBuffer(uniformBuffer, 0, uniformArray);
WriteUniformBuffer ==
    /\ pc = "writeUniformBuffer"
    /\ uniformBuffer' = [uniformBuffer EXCEPT !.writes = @ + 1, !.data = uniformArray]
    /\ pc' = "createBindGroup"
    /\ UNCHANGED <<navigatorGpu, adapter, adapterRequests, error, device,
                   contextConfigured, vertexBuffer,
                   cellStateStorage, cellStateArray, loopI, cellShaderModule,
                   cellPipeline, bindGroup, pass, commandBuffer, submitted,
                   frame, log, drawVars>>

\* cellPipeline.getBindGroupLayout(0) with layout "auto": the bindings of
\* group 0 that the pipeline's entry points use
BindGroupLayout0 == ShaderBindings

\* entries: [{binding: 0, resource: {buffer: uniformBuffer}}]
BindGroupEntries == [b \in {0} |-> "uniformBuffer"]

\* const bindGroup = device.createBindGroup({layout, entries}); a bind group
\* whose entries do not match its layout is an invalid object, not an exception
CreateBindGroup ==
    /\ pc = "createBindGroup"
    /\ bindGroup' = [created |-> TRUE,
                     entries |-> BindGroupEntries,
                     valid   |-> DOMAIN BindGroupEntries = BindGroupLayout0]
    /\ log' = Append(log, "ResourceBinding")
    /\ pc' = "createCellStateArray"
    /\ UNCHANGED <<navigatorGpu, adapter, adapterRequests, error, device,
                   contextConfigured, vertexBuffer, uniformBuffer,
                   cellStateStorage, cellStateArray, loopI, cellShaderModule,
                   cellPipeline, pass, commandBuffer, submitted,
                   frame, drawVars>>

\* const cellStateArray = new Uint32Array(GRID_SIZE * GRID_SIZE);
CreateCellStateArray ==
    /\ pc = "createCellStateArray"
    /\ cellStateArray' = NewCellStateArray
    /\ pc' = "createCellStateStorage"
    /\ UNCHANGED <<navigatorGpu, adapter, adapterRequests, error, device,
                   contextConfigured, vertexBuffer, uniformBuffer,
                   cellStateStorage, loopI, cellShaderModule,
                   cellPipeline, bindGroup, pass, commandBuffer, submitted,
                   frame, log, drawVars>>

\* const cellStateStorage = device.createBuffer({size: cellStateArray.byteLength})
CreateCellStateStorage ==
    /\ pc = "createCellStateStorage"
    /\ cellStateStorage' = [NoBuffer EXCEPT !.created = TRUE,
                               !.size = ByteLength(ArrayLength(cellStateArray))]
    /\ loopI' = 0
    /\ pc' = "fillLoop"
    /\ UNCHANGED <<navigatorGpu, adapter, adapterRequests, error, device,
                   contextConfigured, vertexBuffer, uniformBuffer,
                   cellStateArray, cellShaderModule,
                   cellPipeline, bindGroup, pass, commandBuffer, submitted,
                   frame, log, drawVars>>

\* the upload issued from inside the loop body
FillLoopStepUploading ==
    /\ pc = "fillLoop"
    /\ loopI < ArrayLength(cellStateArray)
    /\ cellStateArray' = [cellStateArray EXCEPT ![loopI] = 1]
    /\ cellStateStorage' = [cellStateStorage EXCEPT !.writes = @ + 1,
                                                    !.data = cellStateArray']
    /\ loopI' = loopI + 3
    /\ UNCHANGED <<pc, navigatorGpu, adapter, adapterRequests, error, device,
                   contextConfigured, vertexBuffer, uniformBuffer,
                   cellShaderModule,
                   cellPipeline, bindGroup, pass, commandBuffer, submitted,
                   frame, log, drawVars>>
\* for (let i = 0; i < cellStateArray.length; i += 3) cellStateArray[i] = 1;
FillLoopStep ==
    /\ pc = "fillLoop"
    /\ loopI < ArrayLength(cellStateArray)
    /\ cellStateArray' = [cellStateArray EXCEPT ![loopI] = 1]
    /\ loopI' = loopI + 3
    /\ UNCHANGED <<pc, navigatorGpu, adapter, adapterRequests, error, device,
                   contextConfigured, vertexBuffer, uniformBuffer,
                   cellStateStorage, cellShaderModule,
                   cellPipeline, bindGroup, pass, commandBuffer, submitted,
                   frame, log, drawVars>>

\* the loop condition fails
FillLoopExit ==
    /\ pc = "fillLoop"
    /\ ~(loopI < ArrayLength(cellStateArray))
    /\ pc' = "writeCellState"
    /\ UNCHANGED <<navigatorGpu, adapter, adapterRequests, error, device,
                   contextConfigured, vertexBuffer, uniformBuffer,
                   cellStateStorage, cellStateArray, loopI, cellShaderModule,
                   cellPipeline, bindGroup, pass, commandBuffer, submitted,
                   frame, log, drawVars>>

\* device.queue.writeBuffer(cellStateStorage, 0, cellStateArray);
WriteCellState ==
    /\ pc = "writeCellState"
    /\ cellStateStorage' = [cellStateStorage EXCEPT !.writes = @ + 1,
                                                    !.data = cellStateArray]
    /\ log' = Append(log, "GridStateBuffer")
    /\ pc' = "beginRenderPass"
    /\ UNCHANGED <<navigatorGpu, adapter, adapterRequests, error, device,
                   contextConfigured, vertexBuffer, uniformBuffer,
                   cellStateArray, loopI, cellShaderModule,
                   cellPipeline, bindGroup, pass, commandBuffer, submitted,
                   frame, drawVars>>

\* const encoder = device.createCommandEncoder();
\* const pass = encoder.beginRenderPass({colorAttachments: [{loadOp: "clear", ...}]})
BeginRenderPass ==
    /\ pc = "beginRenderPass"
    /\ pass' = [NoPass EXCEPT !.begun = TRUE]
    /\ pc' = "setPipeline"
    /\ UNCHANGED <<navigatorGpu, adapter, adapterRequests, error, device,
                   contextConfigured, vertexBuffer, uniformBuffer,
                   cellStateStorage, cellStateArray, loopI, cellShaderModule,
                   cellPipeline, bindGroup, commandBuffer, submitted,
                   frame, log, drawVars>>

\* pass.setPipeline(cellPipeline);
SetPipeline ==
    /\ pc = "setPipeline"
    /\ pass' = [pass EXCEPT !.pipeline = TRUE, !.valid = @ /\ cellPipeline]
    /\ pc' = "setVertexBuffer"
    /\ UNCHANGED <<navigatorGpu, adapter, adapterRequests, error, device,
                   contextConfigured, vertexBuffer, uniformBuffer,
                   cellStateStorage, cellStateArray, loopI, cellShaderModule,
                   cellPipeline, bindGroup, commandBuffer, submitted,
                   frame, log, drawVars>>

\* pass.setVertexBuffer(0, vertexBuffer);
SetVertexBuffer ==
    /\ pc = "setVertexBuffer"
    /\ pass' = [pass EXCEPT !.vertexBuffer = TRUE, !.valid = @ /\ vertexBuffer.created]
    /\ pc' = "setBindGroup"
    /\ UNCHANGED <<navigatorGpu, adapter, adapterRequests, error, device,
                   contextConfigured, vertexBuffer, uniformBuffer,
                   cellStateStorage, cellStateArray, loopI, cellShaderModule,
                   cellPipeline, bindGroup, commandBuffer, submitted,
                   frame, log, drawVars>>

\* pass.setBindGroup(0, bindGroup); an invalid bind group invalidates the encoder
SetBindGroup ==
    /\ pc = "setBindGroup"
    /\ pass' = [pass EXCEPT !.bindGroup = TRUE, !.valid = @ /\ bindGroup.valid]
    /\ pc' = "draw"
    /\ UNCHANGED <<navigatorGpu, adapter, adapterRequests, error, device,
                   contextConfigured, vertexBuffer, uniformBuffer,
                   cellStateStorage, cellStateArray, loopI, cellShaderModule,
                   cellPipeline, bindGroup, commandBuffer, submitted,
                   frame, log, drawVars>>

\* pass.draw(vertices.length / 2, GRID_SIZE * GRID_SIZE);
Draw ==
    /\ pc = "draw"
    /\ pass' = [pass EXCEPT !.draw = [vertexCount   |-> VerticesLength \div 2,
                                      instanceCount |-> GRID_SIZE * GRID_SIZE]]
    /\ pc' = "end"
    /\ UNCHANGED <<navigatorGpu, adapter, adapterRequests, error, device,
                   contextConfigured, vertexBuffer, uniformBuffer,
                   cellStateStorage, cellStateArray, loopI, cellShaderModule,
                   cellPipeline, bindGroup, commandBuffer, submitted,
                   frame, log, drawVars>>

\* pass.end();
PassEnd ==
    /\ pc = "end"
    /\ pass' = [pass EXCEPT !.ended = TRUE]
    /\ pc' = "finish"
    /\ UNCHANGED <<navigatorGpu, adapter, adapterRequests, error, device,
                   contextConfigured, vertexBuffer, uniformBuffer,
                   cellStateStorage, cellStateArray, loopI, cellShaderModule,
                   cellPipeline, bindGroup, commandBuffer, submitted,
                   frame, log, drawVars>>

\* const commandBuffer = encoder.finish();
Finish ==
    /\ pc = "finish"
    /\ commandBuffer' = [finished |-> TRUE, valid |-> pass.valid /\ pass.ended]
    /\ pc' = "submit"
    /\ UNCHANGED <<navigatorGpu, adapter, adapterRequests, error, device,
                   contextConfigured, vertexBuffer, uniformBuffer,
                   cellStateStorage, cellStateArray, loopI, cellShaderModule,
                   cellPipeline, bindGroup, pass, submitted,
                   frame, log, drawVars>>

\* contents of the buffer a bind group entry names
BufferData(name) ==
    IF name = "uniformBuffer" THEN uniformBuffer.data
    ELSE IF name = "cellStateStorage" THEN cellStateStorage.data
    ELSE vertexBuffer.data

\* what the queue renders for the recorded draw: the instances whose
\* transformed square has non-zero area
Rendered ==
    LET g         == BufferData(bindGroup.entries[0])
        grid      == <<Rat(g[1]), Rat(g[2])>>
        cellState == BufferData(bindGroup.entries[1])
    IN  {i \in 0 .. (pass.draw.instanceCount - 1) :
            HasArea(InstanceOutputs(vertexBuffer.data, i, grid, cellState))}

\* device.queue.submit([commandBuffer]); an invalid command buffer is
\* rejected by validation and nothing executes
Submit ==
    /\ pc = "submit"
    /\ submitted' = submitted + Len(<<commandBuffer>>)
    /\ frame' = IF commandBuffer.valid
                THEN [drawn |-> TRUE, visible |-> Rendered]
                ELSE frame
    /\ log' = Append(log, "CommandSubmission")
    /\ pc' = "done"
    /\ UNCHANGED <<navigatorGpu, adapter, adapterRequests, error, device,
                   contextConfigured, vertexBuffer, uniformBuffer,
                   cellStateStorage, cellStateArray, loopI, cellShaderModule,
                   cellPipeline, bindGroup, pass, commandBuffer, drawVars>>

Next ==
    \/ CheckGpu \/ RequestAdapter \/ CheckAdapter \/ RequestDevice
    \/ Configure \/ CreateVertexBuffer \/ WriteVertexBuffer
    \/ CreateShaderModule \/ CreatePipeline
    \/ CreateUniformBuffer \/ WriteUniformBuffer \/ CreateBindGroup
    \/ CreateCellStateArray \/ CreateCellStateStorage
    \/ FillLoopStep \/ FillLoopExit \/ WriteCellState
    \/ BeginRenderPass \/ SetPipeline \/ SetVertexBuffer \/ SetBindGroup
    \/ Draw \/ PassEnd \/ Finish \/ Submit

Spec == Init /\ [][Next]_vars

(***************************************************************************)
(* DrawSpec: the vertex stage over one draw call of dGrid * dGrid          *)
(* instances.  The cell-state buffer is filled before the draw, as in the  *)
(* script, with every step-th cell from `start` on set to 1.               *)
(***************************************************************************)
\* for (let i = start; i < n; i += step) a[i] = 1, on a zero-filled array
EveryNth(n, start, step) ==
    [i \in 0 .. (n - 1) |-> IF i >= start /\ (i - start) % step = 0 THEN 1 ELSE 0]

DrawInit ==
    /\ ProgInit
    /\ navigatorGpu = TRUE
    /\ dGrid \in 1 .. MaxGrid
    /\ dNext = 0
    /\ \E step \in 1 .. MaxStep : \E start \in 0 .. (step - 1) :
          dCellState = EveryNth(dGrid * dGrid, start, step)
    /\ dOut = <<>>

\* instance dNext runs vertexMain on each of the six vertices
VertexStage ==
    /\ dNext < dGrid * dGrid
    /\ dOut' = Append(dOut,
           InstanceOutputs(vertices, dNext, <<Rat(dGrid), Rat(dGrid)>>, dCellState))
    /\ dNext' = dNext + 1
    /\ UNCHANGED <<dGrid, dCellState, progVars>>

DrawNext == VertexStage

DrawSpec == DrawInit /\ [][DrawNext]_vars

(***************************************************************************)
(* Properties of the vertex stage (checked under DrawSpec)                 *)
(***************************************************************************)
Processed == 0 .. (dNext - 1)
Out(i) == dOut[i + 1]
StateOf(i) == dCellState[i]
Positions(i) == {Out(i)[k].pos : k \in 1 .. Len(vertices)}
GridCells == {<<Rat(x), Rat(y)>> : x \in 0 .. (dGrid - 1), y \in 0 .. (dGrid - 1)}

\* lower / upper edge, on one axis, of the strip that starts a/dGrid after the
\* start of cell column (or row) c, in normalized device coordinates
Edge(c, a) == RAdd(RSub(RDiv(Rat(2 * c), Rat(dGrid)), Rat(1)), RDiv(a, Rat(dGrid)))

\* the four corners of the square [Edge(cx,a), Edge(cx,b)] x [Edge(cy,a), Edge(cy,b)]
\* of instance i's cell
Corners(i, a, b) ==
    LET cx == i % dGrid
        cy == i \div dGrid
    IN  {<<Edge(cx, a), Edge(cy, a)>>, <<Edge(cx, b), Edge(cy, a)>>,
         <<Edge(cx, b), Edge(cy, b)>>, <<Edge(cx, a), Edge(cy, b)>>}

\* C1: every instance i of an N x N draw gets cell (i mod N, floor(i / N)); over
\* the whole draw the mapping is one-to-one and onto [0,N) x [0,N); x varies
\* fastest: instance 0 -> (0,0), instance 1 -> (1,0), instance N -> (0,1).
C1_Unravel ==
    /\ \A i \in Processed : \A k \in 1 .. Len(vertices) :
          Out(i)[k].cell = <<Rat(i % dGrid), Rat(i \div dGrid)>>
    /\ dNext = dGrid * dGrid =>
          /\ {Out(i)[1].cell : i \in Processed} = GridCells
          /\ \A i, j \in Processed : Out(i)[1].cell = Out(j)[1].cell => i = j
    /\ 0 \in Processed => Out(0)[1].cell = <<Rat(0), Rat(0)>>
    /\ (dGrid > 1 /\ 1 \in Processed) => Out(1)[1].cell = <<Rat(1), Rat(0)>>
    /\ dGrid \in Processed => Out(dGrid)[1].cell = <<Rat(0), Rat(1)>>

C1_Witness == dGrid >= 2 /\ dNext = dGrid * dGrid

\* C2 as stated: for a cell of state 1 the six transformed vertices are the
\* corners of the cell's whole sub-rectangle [cellOffset, cellOffset + 2/N].
C2_FullCell ==
    \A i \in Processed : StateOf(i) = 1 => Positions(i) = Corners(i, Rat(0), Rat(2))

\* C2 amended: for a cell of state 1 the six transformed vertices are the
\* corners of the square [cellOffset + 0.2/N, cellOffset + 1.8/N] in each axis
\* (side 1.6/N, centred in the cell), and the two triangles tile that square.
C2_InsetSquare ==
    \A i \in Processed : StateOf(i) = 1 =>
        /\ Positions(i) = Corners(i, Norm(2, 10), Norm(18, 10))
        /\ LET side2 == RMul(RDiv(Norm(16, 10), Rat(dGrid)), RDiv(Norm(16, 10), Rat(dGrid)))
           IN  /\ TriArea2(Out(i)[1].pos, Out(i)[2].pos, Out(i)[3].pos) = side2
               /\ TriArea2(Out(i)[4].pos, Out(i)[5].pos, Out(i)[6].pos) = side2

C2_Witness == \E i \in Processed : StateOf(i) = 1 /\ i >= dGrid /\ i % dGrid > 0

\* C3: for a cell of state 0 all six transformed vertices are one point, so
\* both triangles of the instance have zero area.
C3_Degenerate ==
    \A i \in Processed : StateOf(i) = 0 =>
        /\ \A k \in 1 .. Len(vertices) : Out(i)[k].pos = Out(i)[1].pos
        /\ ~HasArea(Out(i))

C3_Witness == \E i \in Processed : StateOf(i) = 0 /\ i > 0

\* C10: every transformed vertex of instance i, whatever its state, lies in
\* the sub-rectangle of i's own cell, hence in the [-1,1] x [-1,1] viewport,
\* and the squares of two distinct instances do not overlap.
InCell(p, i) ==
    /\ RLe(Edge(i % dGrid, Rat(0)), p[1]) /\ RLe(p[1], Edge(i % dGrid, Rat(2)))
    /\ RLe(Edge(i \div dGrid, Rat(0)), p[2]) /\ RLe(p[2], Edge(i \div dGrid, Rat(2)))

InViewport(p) ==
    /\ RLe(Rat(-1), p[1]) /\ RLe(p[1], Rat(1))
    /\ RLe(Rat(-1), p[2]) /\ RLe(p[2], Rat(1))

\* the squares of i and j are separated along axis c (1 = x, 2 = y)
Separated(i, j, c) ==
    \/ \A p \in Positions(i), q \in Positions(j) : RLe(p[c], q[c])
    \/ \A p \in Positions(i), q \in Positions(j) : RLe(q[c], p[c])

C10_Contained ==
    /\ \A i \in Processed : \A p \in Positions(i) : InCell(p, i) /\ InViewport(p)
    /\ \A i, j \in Processed : i # j => Separated(i, j, 1) \/ Separated(i, j, 2)

C10_Witness ==
    /\ dGrid >= 2
    /\ \E i, j \in Processed : i + 1 = j /\ j % dGrid # 0
                               /\ StateOf(i) = 1 /\ StateOf(j) = 1

(***************************************************************************)
(* Properties of the script (checked under Spec)                           *)
(***************************************************************************)
\* C4: the bind group wires binding 0 to the uniform buffer and binding 1 to
\* the cell-state storage buffer, its binding indices being exactly those the
\* shader declares; otherwise setup has failed and nothing is submitted.
C4_BindingsMatch ==
    bindGroup.created =>
        \/ /\ DOMAIN bindGroup.entries = ShaderBindings
           /\ bindGroup.entries[0] = "uniformBuffer"
           /\ bindGroup.entries[1] = "cellStateStorage"
        \/ error # "none" /\ submitted = 0

\* C5: the draw call is issued for 6 vertices and 1024 instances, and instance
\* i is rendered with non-zero area exactly when i is a multiple of 3.
C5_EveryThirdVisible ==
    pc = "done" =>
        /\ pass.draw = [vertexCount |-> 6, instanceCount |-> 1024]
        /\ frame.drawn
        /\ \A i \in 0 .. 1023 : (i \in frame.visible) <=> (i % 3 = 0)

NothingCreated ==
    /\ ~device /\ ~contextConfigured
    /\ ~vertexBuffer.created /\ ~uniformBuffer.created /\ ~cellStateStorage.created
    /\ ~cellShaderModule /\ ~cellPipeline /\ ~bindGroup.created
    /\ ~pass.begun /\ ~commandBuffer.finished
    /\ submitted = 0

\* C6: without navigator.gpu, or with a null adapter, the script stops with
\* the error at that check: no device is requested, nothing is created,
\* nothing is submitted, and the adapter is not requested again.
C6_AbortsEarly ==
    /\ (~navigatorGpu /\ pc # "checkGpu") =>
          /\ pc = "aborted"
          /\ error = "WebGPU not supported on this browser."
          /\ adapterRequests = 0
    /\ (adapter = "null" /\ pc # "checkAdapter") =>
          /\ pc = "aborted"
          /\ error = "No appropriate GPUAdapter found."
    /\ (~navigatorGpu \/ adapter = "null") => NothingCreated /\ adapterRequests <= 1
    /\ pc = "aborted" <=> error # "none"

C6_Witness == pc = "aborted" /\ adapter = "null"

\* C7: the stages complete once each, in the order Surface Acquisition,
\* Geometry Definition, Grid-State Buffer, Shader Program, Pipeline Assembly,
\* Resource Binding, Command Submission.
C7_StageOrder ==
    pc = "done" =>
        log = <<"SurfaceAcquisition", "GeometryDefinition", "GridStateBuffer",
                "ShaderProgram", "PipelineAssembly", "ResourceBinding",
                "CommandSubmission">>

AllWrittenOnce ==
    vertexBuffer.writes = 1 /\ uniformBuffer.writes = 1 /\ cellStateStorage.writes = 1

Frozen(b, bNext) == b.writes >= 1 => bNext.data = b.data /\ bNext.writes = b.writes

\* C8: each of the three buffers is written exactly once, every write comes
\* before the one submission, exactly one command buffer is submitted, and no
\* buffer's content changes once it has been uploaded.
C8_WrittenOnce ==
    /\ [](/\ vertexBuffer.writes <= 1 /\ uniformBuffer.writes <= 1
          /\ cellStateStorage.writes <= 1
          /\ submitted <= 1
          /\ submitted >= 1 => AllWrittenOnce
          /\ pc = "done" => AllWrittenOnce /\ submitted = 1)
    /\ [][/\ Frozen(vertexBuffer, vertexBuffer')
          /\ Frozen(uniformBuffer, uniformBuffer')
          /\ Frozen(cellStateStorage, cellStateStorage')]_vars

C8_Witness == pc = "done" /\ submitted = 1 /\ AllWrittenOnce

\* C9: once created, the vertex buffer is 48 bytes, the uniform buffer 8 bytes,
\* the storage buffer 4 * N * N bytes, and the cell-state array has
\* width * height = N * N elements, N positive.
C9_Sizes ==
    /\ GRID_SIZE > 0
    /\ vertexBuffer.created => vertexBuffer.size = 48
    /\ uniformBuffer.created => uniformBuffer.size = 8
    /\ cellStateStorage.created => cellStateStorage.size = 4 * GRID_SIZE * GRID_SIZE
    /\ (cellStateArray # <<>> \/ cellStateStorage.created)
          => ArrayLength(cellStateArray) = uniformArray[1] * uniformArray[2]

C9_Witness ==
    vertexBuffer.created /\ uniformBuffer.created /\ cellStateStorage.created

====
